---------------------------- MODULE Spec2Model ----------------------------
(***************************************************************************)
(* A model of the csv_tools repository's text engines and their callers:   *)
(*                                                                         *)
(*   - analyze_similarity (column_similarity_analyzer.py): the greedy      *)
(*     similarity grouping of a column's distinct values;                  *)
(*   - extract_groups (ypaa_comitee_analyzer.py): the extraction and       *)
(*     normalisation of committee names from one free-text field;          *)
(*   - analyze_csv (analyze_registrations_count.py): the parsing and       *)
(*     counting of the product lines of a row;                             *)
(*   - main (ypaa_comitee_analyzer.py): the tally of committee labels      *)
(*     weighted by each row's registrations.                               *)
(*                                                                         *)
(* A Python str is a sequence of one-character strings, so that strip,     *)
(* lower, title, `in`, re.split and re.search are computed character by    *)
(* character.  Python's 0-based indices are 1-based here.                  *)
(***************************************************************************)
EXTENDS Integers, Sequences, FiniteSets

VARIABLES
    \* analyze_similarity
    rows,           \* the column's cells, in file order
    cutoff,         \* the similarity threshold, in hundredths
    counts,         \* Counter(values): distinct value -> occurrences
    unique_vals,    \* the distinct values, sorted
    groups,         \* the list of groups, each a list of <<value, count>>
    visited,        \* the set of values already placed
    i,              \* the root loop's index
    j,              \* the candidate loop's index
    current_group,  \* the group being built for unique_vals[i]
    pc,             \* where analyze_similarity stands
    \* extract_groups
    name,           \* the raw field
    parts,          \* re.split's result
    k,              \* the index of the part the loop is at
    found_groups,   \* the labels collected so far
    result,         \* the returned list
    epc,            \* where extract_groups stands
    \* analyze_csv (analyze_registrations_count.py), one row
    total_rows,
    cell_value,     \* the row's cell of the products column
    lines,          \* the cell split at its newlines
    li,             \* the index of the line the loop is at
    found_match,    \* whether a line of the cell matched
    product_name,   \* `name`: the product of the last line that matched
    price_val,      \* its amount
    quantity,       \* its quantity
    reg_type,       \* its registration type
    total_registrations,
    breakdown,      \* "<name> - <type>" -> quantity
    price_counts,   \* price -> quantity, for the prices listed in line 55
    other_price_counts,
    rows_without_matches,
    rpc,            \* where analyze_csv stands
    \* main (ypaa_comitee_analyzer.py), after the columns are chosen
    data_rows,      \* `rows`: each a list of cells, products first, then
                    \* the committee field
    ri,             \* the index of the row the loop is at
    all_groups,     \* the labels, each as often as its row has registrations
    total_registrations_processed,
    group_counts,   \* Counter(all_groups)
    filtered_items, \* the <<label, count>> of the grouped bucket
    dissimilar_sum,
    no_specified_sum,
    yes_unspecified_sum,
    total_mentions_weighted,
    filtered_count_sum,
    tpc             \* where main stands

simVars == <<rows, cutoff, counts, unique_vals, groups, visited, i, j,
             current_group, pc>>
extVars == <<name, parts, k, found_groups, result, epc>>
regVars == <<total_rows, cell_value, lines, li, found_match, product_name, price_val,
             quantity, reg_type, total_registrations, breakdown, price_counts,
             other_price_counts, rows_without_matches, rpc>>
tallyVars == <<data_rows, ri, all_groups, total_registrations_processed,
               group_counts, filtered_items, dissimilar_sum, no_specified_sum,
               yes_unspecified_sum, total_mentions_weighted,
               filtered_count_sum, tpc>>
vars == <<simVars, extVars, regVars, tallyVars>>

---------------------------------------------------------------------------
(* Characters and the str methods the two functions use.                   *)

LowerLetters == <<"a","b","c","d","e","f","g","h","i","j","k","l","m",
                  "n","o","p","q","r","s","t","u","v","w","x","y","z">>
UpperLetters == <<"A","B","C","D","E","F","G","H","I","J","K","L","M",
                  "N","O","P","Q","R","S","T","U","V","W","X","Y","Z">>
Digits == <<"0","1","2","3","4","5","6","7","8","9">>

\* The characters of the model in code point order.
AsciiOrder == <<" ","!","&","(",")",",","-",".","/">> \o Digits \o <<":">>
              \o UpperLetters \o <<"_">> \o LowerLetters

Range(s) == { s[x] : x \in DOMAIN s }

LowerSet == Range(LowerLetters)
UpperSet == Range(UpperLetters)
DigitSet == Range(Digits)

IsLower(c) == c \in LowerSet
IsUpper(c) == c \in UpperSet
IsAlpha(c) == IsLower(c) \/ IsUpper(c)
IsSpace(c) == c \in {" ", "\n"}
\* \w of the re module
IsWord(c) == IsAlpha(c) \/ c \in DigitSet \/ c = "_"

IndexIn(s, c) == CHOOSE x \in DOMAIN s : s[x] = c
Code(c) == IndexIn(AsciiOrder, c)

LowerChar(c) == IF IsUpper(c) THEN LowerLetters[IndexIn(UpperLetters, c)] ELSE c
UpperChar(c) == IF IsLower(c) THEN UpperLetters[IndexIn(LowerLetters, c)] ELSE c

\* str.lower, str.upper
Lower(s) == [x \in DOMAIN s |-> LowerChar(s[x])]
Upper(s) == [x \in DOMAIN s |-> UpperChar(s[x])]

\* str.title: a letter is upper-cased when the character before it is not a
\* letter, and lower-cased otherwise.
Title(s) == [x \in DOMAIN s |->
               IF x > 1 /\ IsAlpha(s[x-1]) THEN LowerChar(s[x]) ELSE UpperChar(s[x])]

\* str.strip
RECURSIVE LStrip(_)
LStrip(s) == IF s # <<>> /\ IsSpace(Head(s)) THEN LStrip(Tail(s)) ELSE s
RECURSIVE RStrip(_)
RStrip(s) == IF s # <<>> /\ IsSpace(s[Len(s)])
             THEN RStrip(SubSeq(s, 1, Len(s) - 1)) ELSE s
Strip(s) == RStrip(LStrip(s))

\* sub in s
Contains(sub, s) ==
    \E p \in 0..(Len(s) - Len(sub)) : SubSeq(s, p + 1, p + Len(sub)) = sub

\* s < t for two str
RECURSIVE StrLess(_, _)
StrLess(s, t) ==
    IF t = <<>> THEN FALSE
    ELSE IF s = <<>> THEN TRUE
    ELSE IF Head(s) = Head(t) THEN StrLess(Tail(s), Tail(t))
    ELSE Code(Head(s)) < Code(Head(t))

\* list.sort on a list of str
RECURSIVE InsertStr(_, _)
InsertStr(sorted, s) ==
    IF sorted = <<>> THEN <<s>>
    ELSE IF StrLess(s, Head(sorted)) THEN <<s>> \o sorted
    ELSE <<Head(sorted)>> \o InsertStr(Tail(sorted), s)
SortStringsNot(l) == l
RECURSIVE SortStrings(_)
SortStrings(l) ==
    IF l = <<>> THEN <<>>
    ELSE InsertStr(SortStrings(SubSeq(l, 1, Len(l) - 1)), l[Len(l)])

---------------------------------------------------------------------------
(* difflib.SequenceMatcher(None, a, b).ratio(): the Ratcliff/Obershelp     *)
(* measure.  No character is junk (isjunk is None, and the popularity      *)
(* heuristic needs 200 characters).                                        *)

\* find_longest_match: the longest block a[p..p+n-1] = b[q..q+n-1]; of the
\* longest, the one starting earliest in a; of those, earliest in b.
\* <<0, 0, 0>> when no character matches.
FindLongestMatch(a, b) ==
    LET blocks == { t \in (DOMAIN a) \X (DOMAIN b) \X (1..Len(a)) :
                      /\ t[1] + t[3] - 1 <= Len(a)
                      /\ t[2] + t[3] - 1 <= Len(b)
                      /\ SubSeq(a, t[1], t[1] + t[3] - 1)
                           = SubSeq(b, t[2], t[2] + t[3] - 1) }
    IN  IF blocks = {} THEN <<0, 0, 0>>
        ELSE CHOOSE t \in blocks :
               \A u \in blocks :
                  \/ t[3] > u[3]
                  \/ t[3] = u[3] /\ t[1] < u[1]
                  \/ t[3] = u[3] /\ t[1] = u[1] /\ t[2] <= u[2]

\* get_matching_blocks, summed: the longest block, then the same to its left
\* and to its right.
RECURSIVE Matches(_, _)
Matches(a, b) ==
    IF a = <<>> \/ b = <<>> THEN 0
    ELSE LET m == FindLongestMatch(a, b)
         IN  IF m[3] = 0 THEN 0
             ELSE m[3]
                  + Matches(SubSeq(a, 1, m[1] - 1), SubSeq(b, 1, m[2] - 1))
                  + Matches(SubSeq(a, m[1] + m[3], Len(a)),
                            SubSeq(b, m[2] + m[3], Len(b)))

---------------------------------------------------------------------------
(* analyze_similarity                                                      *)

\* Bounds of the model.
MaxRows == 3

\* The threshold the code sets, in hundredths.
DefaultCutoff == 60
\* The thresholds the loop is run with.
Cutoffs == {50, DefaultCutoff, 100}

\* The cells a column may hold.
Vocabulary == { <<>>, <<" ", "a", "b">>, <<"A", "p", "p", "l", "e">>, <<"a", "p", "p", "l", "e">>, <<"a", "a">>, <<"a", "b">>, <<"b">>,
                <<"a", "b", "c">>, <<"a", "b", "c", "d", "e", "f", "g">> }

\* ratio() of every two values the column may hold, on the lower-cased
\* strings as line 113 passes them: <<root, candidate, 2 * matches, total
\* length>>, the ratio being the quotient of the last two.
Words == { Strip(w) : w \in Vocabulary } \ {<<>>}
RatioTableCaseSensitive ==
    { <<a, b, 2 * Matches(a, b), Len(a) + Len(b)>> : a \in Words, b \in Words }
RatioTable ==
    { <<a, b, 2 * Matches(Lower(a), Lower(b)), Len(a) + Len(b)>> :
        a \in Words, b \in Words }
Ratio(root, candidate) ==
    LET e == CHOOSE e \in RatioTable : e[1] = root /\ e[2] = candidate
    IN  <<e[3], e[4]>>

\* line 114: ratio >= cutoff, the threshold c in hundredths
SimilarAlways(root, candidate, c) == TRUE
SimilarBelow(root, candidate, c) ==
    Ratio(root, candidate)[1] * 100 <= c * Ratio(root, candidate)[2]
Similar(root, candidate, c) ==
    Ratio(root, candidate)[1] * 100 >= c * Ratio(root, candidate)[2]

\* lines 58-62: the stripped, non-empty cells
RECURSIVE Values(_)
Values(cells) ==
    IF cells = <<>> THEN <<>>
    ELSE LET rest == Values(SubSeq(cells, 1, Len(cells) - 1))
             val == cells[Len(cells)]
         IN  IF val # <<>> /\ Strip(val) # <<>> THEN Append(rest, Strip(val)) ELSE rest

\* Counter(values)
Counter(values) ==
    [v \in Range(values) |-> Cardinality({ x \in DOMAIN values : values[x] = v })]

\* list(counts.keys()): the distinct values in the order they first occur
RECURSIVE Keys(_)
Keys(values) ==
    IF values = <<>> THEN <<>>
    ELSE LET rest == Keys(SubSeq(values, 1, Len(values) - 1))
         IN  IF values[Len(values)] \in Range(rest) THEN rest
             ELSE Append(rest, values[Len(values)])

\* sum(x[1] for x in g)
RECURSIVE GroupTotal(_)
GroupTotal(g) == IF g = <<>> THEN 0 ELSE Head(g)[2] + GroupTotal(Tail(g))

\* groups.sort(key=..., reverse=True): stable, largest total first
RECURSIVE InsertGroup(_, _)
InsertGroup(sorted, g) ==
    IF sorted = <<>> THEN <<g>>
    ELSE IF GroupTotal(g) > GroupTotal(Head(sorted)) THEN <<g>> \o sorted
    ELSE <<Head(sorted)>> \o InsertGroup(Tail(sorted), g)
SortGroupsLeastFirst(gs) ==
    IF gs = <<>> THEN <<>>
    ELSE LET least == CHOOSE x \in DOMAIN gs :
                         \A y \in DOMAIN gs : GroupTotal(gs[x]) <= GroupTotal(gs[y])
         IN  <<gs[least]>> \o [x \in 1..(Len(gs) - 1) |->
                                 IF x < least THEN gs[x] ELSE gs[x + 1]]
RECURSIVE SortGroupsByTotal(_)
SortGroupsByTotal(gs) ==
    IF gs = <<>> THEN <<>>
    ELSE InsertGroup(SortGroupsByTotal(SubSeq(gs, 1, Len(gs) - 1)), gs[Len(gs)])

\* line 96, line 105: the visited test
IsVisitedNever(v, vis) == FALSE
IsVisited(v, vis) == v \in vis

\* line 118: the group is kept
Keeps(g) == Len(g) > 1

\* lines 95-122 as one function of the sorted values, their counts and the
\* threshold: the candidate loop from index q, then the root loop from index p.
RECURSIVE ScanCandidates(_, _, _, _, _, _, _)
ScanCandidates(vals, cnts, c, root, q, grp, vis) ==
    IF q > Len(vals) THEN <<grp, vis>>
    ELSE IF IsVisited(vals[q], vis)
         THEN ScanCandidates(vals, cnts, c, root, q + 1, grp, vis)
    ELSE IF Similar(root, vals[q], c)
         THEN ScanCandidates(vals, cnts, c, root, q + 1,
                             Append(grp, <<vals[q], cnts[vals[q]]>>),
                             vis \cup {vals[q]})
    ELSE ScanCandidates(vals, cnts, c, root, q + 1, grp, vis)

RECURSIVE ScanRoots(_, _, _, _, _, _)
ScanRoots(vals, cnts, c, p, grps, vis) ==
    IF p > Len(vals) THEN grps
    ELSE IF IsVisited(vals[p], vis) THEN ScanRoots(vals, cnts, c, p + 1, grps, vis)
    ELSE LET scan == ScanCandidates(vals, cnts, c, vals[p], p + 1,
                                    << <<vals[p], cnts[vals[p]]>> >>,
                                    vis \cup {vals[p]})
         IN  ScanRoots(vals, cnts, c, p + 1,
                       IF Keeps(scan[1]) THEN Append(grps, scan[1]) ELSE grps,
                       scan[2])

Cluster(vals, cnts, c) == SortGroupsByTotal(ScanRoots(vals, cnts, c, 1, <<>>, {}))

\* The extractor's variables while analyze_similarity runs.
\* lines 45-56 of analyze_registrations_count.py: the counters before the
\* first row; a price is <<is it an int, numerator, denominator>>.
ListedPrices == {0, 20, 25, 30, 35, 40, 50}
RegIdle ==
    /\ total_rows = 0
    /\ cell_value = <<>> /\ lines = <<>> /\ li = 0 /\ found_match = FALSE
    /\ product_name = <<>> /\ price_val = <<TRUE, 0, 1>> /\ quantity = 0
    /\ reg_type = <<>>
    /\ total_registrations = 0 /\ breakdown = <<>>
    /\ price_counts = [p \in ListedPrices |-> 0] /\ other_price_counts = <<>>
    /\ rows_without_matches = 0
    /\ rpc = "idle"

\* lines 275-277 and 329-335 of ypaa_comitee_analyzer.py: main's counters
\* before the first row
TallyIdle ==
    /\ data_rows = <<>> /\ ri = 0 /\ all_groups = <<>>
    /\ total_registrations_processed = 0
    /\ group_counts = <<>> /\ filtered_items = <<>>
    /\ dissimilar_sum = 0 /\ no_specified_sum = 0 /\ yes_unspecified_sum = 0
    /\ total_mentions_weighted = 0 /\ filtered_count_sum = 0
    /\ tpc = "idle"

ExtIdle ==
    /\ name = <<>> /\ parts = <<>> /\ k = 0
    /\ found_groups = <<>> /\ result = <<>> /\ epc = "idle"

SimInit ==
    /\ rows \in UNION { [1..n -> Vocabulary] : n \in 0..MaxRows }
    /\ cutoff \in Cutoffs
    /\ counts = <<>> /\ unique_vals = <<>> /\ groups = <<>> /\ visited = {}
    /\ i = 0 /\ j = 0 /\ current_group = <<>>
    /\ pc = "load"
    /\ ExtIdle /\ RegIdle /\ TallyIdle

\* A column of many rows and few values: two pairs of like values.
MaxRepeatedRows == 5
RepeatedWords == { <<"A", "p", "p", "l", "e">>, <<"a", "p", "p", "l", "e">>, <<"a", "a">>, <<"a", "b">> }
RepeatedInit ==
    /\ rows \in UNION { [1..n -> RepeatedWords] : n \in 0..MaxRepeatedRows }
    /\ cutoff \in Cutoffs
    /\ counts = <<>> /\ unique_vals = <<>> /\ groups = <<>> /\ visited = {}
    /\ i = 0 /\ j = 0 /\ current_group = <<>>
    /\ pc = "load"
    /\ ExtIdle /\ RegIdle /\ TallyIdle

\* lines 58-87: values, counts, the sorted distinct values
LoadValues ==
    /\ pc = "load"
    /\ counts' = Counter(Values(rows))
    /\ unique_vals' = SortStrings(Keys(Values(rows)))
    /\ groups' = <<>>
    /\ visited' = {}
    /\ i' = 1
    /\ pc' = "root"
    /\ UNCHANGED <<rows, cutoff, j, current_group, extVars, regVars, tallyVars>>

\* lines 95-97: a visited value is not a root
SkipRoot ==
    /\ pc = "root" /\ i <= Len(unique_vals)
    /\ IsVisited(unique_vals[i], visited)
    /\ i' = i + 1
    /\ UNCHANGED <<rows, cutoff, counts, unique_vals, groups, visited, j,
                   current_group, pc, extVars, regVars, tallyVars>>

\* lines 99-101: a new group for the root
OpenGroup ==
    /\ pc = "root" /\ i <= Len(unique_vals)
    /\ ~IsVisited(unique_vals[i], visited)
    /\ current_group' = << <<unique_vals[i], counts[unique_vals[i]]>> >>
    /\ visited' = visited \cup {unique_vals[i]}
    /\ j' = i + 1
    /\ pc' = "candidate"
    /\ UNCHANGED <<rows, cutoff, counts, unique_vals, groups, i, extVars, regVars, tallyVars>>

\* lines 103-106: a visited value is not a candidate
SkipCandidate ==
    /\ pc = "candidate" /\ j <= Len(unique_vals)
    /\ IsVisited(unique_vals[j], visited)
    /\ j' = j + 1
    /\ UNCHANGED <<rows, cutoff, counts, unique_vals, groups, visited, i,
                   current_group, pc, extVars, regVars, tallyVars>>

\* lines 108-116: the length test of line 110 ends in `pass`, so every
\* unvisited candidate is compared
CompareCandidate ==
    /\ pc = "candidate" /\ j <= Len(unique_vals)
    /\ ~IsVisited(unique_vals[j], visited)
    /\ IF Similar(unique_vals[i], unique_vals[j], cutoff)
       THEN /\ current_group' =
                 Append(current_group, <<unique_vals[j], counts[unique_vals[j]]>>)
            /\ visited' = visited \cup {unique_vals[j]}
       ELSE UNCHANGED <<current_group, visited>>
    /\ j' = j + 1
    /\ UNCHANGED <<rows, cutoff, counts, unique_vals, groups, i, pc, extVars, regVars, tallyVars>>

\* lines 118-119: the candidate loop is over
CloseGroup ==
    /\ pc = "candidate" /\ j > Len(unique_vals)
    /\ groups' = IF Keeps(current_group) THEN Append(groups, current_group) ELSE groups
    /\ i' = i + 1
    /\ pc' = "root"
    /\ UNCHANGED <<rows, cutoff, counts, unique_vals, visited, j, current_group,
                   extVars, regVars, tallyVars>>

\* line 122: the root loop is over
SortGroups ==
    /\ pc = "root" /\ i > Len(unique_vals)
    /\ groups' = SortGroupsByTotal(groups)
    /\ pc' = "done"
    /\ UNCHANGED <<rows, cutoff, counts, unique_vals, visited, i, j,
                   current_group, extVars, regVars, tallyVars>>

SimNext ==
    \/ LoadValues
    \/ SkipRoot
    \/ OpenGroup
    \/ SkipCandidate
    \/ CompareCandidate
    \/ CloseGroup
    \/ SortGroups

SimSpec == SimInit /\ [][SimNext]_vars
RepeatedSpec == RepeatedInit /\ [][SimNext]_vars

\* The grouping loop and its one-function form agree.
SimAgree == pc = "done" => groups = Cluster(unique_vals, counts, cutoff)

---------------------------------------------------------------------------
(* extract_groups                                                          *)

\* The three fixed labels.
NotSpecified == <<"N", "o", "t", " ", "S", "p", "e", "c", "i", "f", "i", "e", "d", " ", "/", " ", "N", "o", "t", " ", "a", " ", "Y", "P", "A", "A">>
YesUnspecified == <<"Y", "e", "s", ",", " ", "U", "n", "s", "p", "e", "c", "i", "f", "i", "e", "d", " ", "G", "r", "o", "u", "p">>
HostAdvisory == <<"H", "o", "s", "t", " ", "/", " ", "A", "d", "v", "i", "s", "o", "r", "y", " ", "(", "U", "n", "s", "p", "e", "c", "i", "f", "i", "e", "d", " ", "Y", "P", "A", "A", ")">>

\* lines 19-24
no_responses ==
    { <<>>, <<"n", "a", "n">>, <<"n", "o">>, <<"n", "o", "p", "e">>, <<"n", "o", "t", " ", "y", "e", "t">>, <<"n", "o", "t", " ", "r", "i", "g", "h", "t", " ", "n", "o", "w">>, <<"m", "a", "y", "b", "e">>,
      <<"n", "o", "t", " ", "c", "u", "r", "r", "e", "n", "t", "l", "y">>, <<"n", "o", "t", " ", "a", "t", " ", "t", "h", "i", "s", " ", "t", "i", "m", "e">>, <<"h", "e", "l", "l", " ", "n", "o">>, <<"n", "a", "u", "r">>, <<"n">>,
      <<"n", "o", "t", " ", "y", "e", "t", "!">>, <<"n", "o", "t", " ", "t", "h", "i", "s", " ", "y", "e", "a", "r">>, <<"t", "h", "e", "r", "e", " ", "i", "s", "n", "t", " ", "o", "n", "e", " ", "n", "e", "a", "r", " ", "m", "e", " ", ":", "(">>,
      <<"n", "e", "g", "a", "t", "i", "v", "e", "/", "s", "u", "p", "p", "o", "r", "t", "e", "r", "/", "c", "h", "e", "e", "r", "l", "e", "a", "d", "e", "r">> }

\* line 30
yes_responses == { <<"y", "e", "s">>, <<"w", "h", "y", " ", "y", "e", "s", " ", "i", " ", "a", "m">>, <<"y", "e", "s", " ", ".">>, <<"y", "e", "a">>, <<"y", "e", "s", "!">> }

\* lines 36-40: <<key, canonical name>>
normalization_map ==
    { <<<<"S", "A", "L", "T", "Y", "P", "A", "A">>, <<"U", "C", "Y", "P", "A", "A">>>>,
      <<<<"S", "L", "U", "T", "Y", "P", "A", "A">>, <<"U", "C", "Y", "P", "A", "A">>>>,
      <<<<"S", "L", "T", "Y", "P", "A", "A">>, <<"U", "C", "Y", "P", "A", "A">>>> }

\* lines 44-62: <<typo, correction>>, in the order the dict literal lists
\* them, which is the order typos.items() yields them
typos ==
    << <<<<"u", "c", "p", "a", "a">>, <<"U", "C", "Y", "P", "A", "A">>>>,
       <<<<"s", "l", "t", "y", "p", "a", "a">>, <<"U", "C", "Y", "P", "A", "A">>>>,
       <<<<"b", "u", "t", "t", "e", "y">>, <<"B", "U", "T", "T", "E", "Y", "P", "A", "A">>>>,
       <<<<"w", "a", "c">>, <<"W", "A", "C", "Y", "P", "A", "A">>>>,
       <<<<"w", "a", "c", "y">>, <<"W", "A", "C", "Y", "P", "A", "A">>>>,
       <<<<"s", "a", "c", "y">>, <<"S", "A", "C", "Y", "P", "A", "A">>>>,
       <<<<"r", "e", "n", "v", "y">>, <<"R", "E", "N", "V", "Y", "P", "A", "A">>>>,
       <<<<"r", "e", "n", "y", "p", "a", "a">>, <<"R", "E", "N", "V", "Y", "P", "A", "A">>>>,
       <<<<"s", "w", "a", "c">>, <<"S", "W", "A", "C", "Y", "P", "A", "A">>>>,
       <<<<"s", "w", "a", "c", "y", "p", "a">>, <<"S", "W", "A", "C", "Y", "P", "A", "A">>>>,
       <<<<"b", "u", "r", "q", "u", "y", "p", "a", "a">>, <<"B", "U", "R", "Q", "Y", "P", "A", "A">>>>,
       <<<<"b", "u", "r", "q", "y", "p", "q", "a", "a">>, <<"B", "U", "R", "Q", "Y", "P", "A", "A">>>>,
       <<<<"n", "a", "c", "y", "p", "a">>, <<"N", "A", "C", "Y", "P", "A", "A">>>>,
       <<<<"c", "c", "p", "a", "a">>, <<"C", "C", "Y", "P", "A", "A">>>>,
       <<<<"b", "e", "l", "l", "y", "p", "a">>, <<"B", "E", "L", "L", "Y", "P", "A", "A">>>>,
       <<<<"b", "a", "c", "y">>, <<"B", "A", "C", "Y", "P", "A", "A">>>>,
       <<<<"t", "i", "t", "y">>, <<"T", "I", "T", "Y", "P", "A", "A">>>> >>

\* How many whitespace characters s holds from position p on.
RECURSIVE SpaceRun(_, _)
SpaceRun(s, p) ==
    IF p <= Len(s) /\ IsSpace(s[p]) THEN 1 + SpaceRun(s, p + 1) ELSE 0

\* line 66: the length of the match of [/,&]|\s+and\s+ that starts at
\* position p of s, 0 when none does.  The pattern is matched as written:
\* `and` in lower case.
SeparatorAt(s, p) ==
    IF s[p] \in {"/", ",", "&"} THEN 1
    ELSE LET w == SpaceRun(s, p)
         IN  IF /\ w > 0
                /\ p + w + 2 <= Len(s)
                /\ SubSeq(s, p + w, p + w + 2) = <<"a", "n", "d">>
                /\ SpaceRun(s, p + w + 3) > 0
             THEN w + 3 + SpaceRun(s, p + w + 3)
             ELSE 0

\* line 66: re.split: the pieces of s between the matches, found left to
\* right, each search starting where the match before it ended.  `from` is
\* where the current piece starts, p where the search stands.
RECURSIVE SplitFrom(_, _, _)
SplitFrom(s, from, p) ==
    IF p > Len(s) THEN <<SubSeq(s, from, Len(s))>>
    ELSE IF SeparatorAt(s, p) > 0
         THEN <<SubSeq(s, from, p - 1)>>
              \o SplitFrom(s, p + SeparatorAt(s, p), p + SeparatorAt(s, p))
    ELSE SplitFrom(s, from, p + 1)
ReSplit(s) == SplitFrom(s, 1, 1)

\* \b at position p of s: of the characters before and at p, exactly one is a
\* word character.
WordBoundary(s, p) ==
    (p > 1 /\ IsWord(s[p - 1])) # (p <= Len(s) /\ IsWord(s[p]))

\* line 85: \b([a-zA-Z]*YPAA)\b, ignoring case, matches at position p with n
\* letters before the YPAA.
MatchesAt(s, p, n) ==
    /\ WordBoundary(s, p)
    /\ p + n + 3 <= Len(s)
    /\ \A x \in p..(p + n - 1) : IsAlpha(s[x])
    /\ Upper(SubSeq(s, p + n, p + n + 3)) = <<"Y", "P", "A", "A">>
    /\ WordBoundary(s, p + n + 4)

\* line 85: re.search: the match that starts leftmost and, there, takes the
\* most letters; <<>> when there is none.  The value is group(1).
ReSearchLast(s) ==
    LET found == { t \in (1..Len(s)) \X (0..Len(s)) : MatchesAt(s, t[1], t[2]) }
    IN  IF found = {} THEN <<>>
        ELSE LET t == CHOOSE t \in found :
                        \A u \in found : t[1] >= u[1]
             IN  SubSeq(s, t[1], t[1] + t[2] + 3)
ReSearch(s) ==
    LET found == { t \in (1..Len(s)) \X (0..Len(s)) : MatchesAt(s, t[1], t[2]) }
    IN  IF found = {} THEN <<>>
        ELSE LET t == CHOOSE t \in found :
                        \A u \in found :
                           t[1] < u[1] \/ (t[1] = u[1] /\ t[2] >= u[2])
             IN  SubSeq(s, t[1], t[1] + t[2] + 3)

\* lines 89-90
NormalizeTypoFirst(found_name) ==
    LET hits == { x \in DOMAIN typos : Contains(typos[x][1], Lower(found_name)) }
    IN  IF hits = {} THEN found_name
        ELSE typos[CHOOSE x \in hits : \A y \in hits : x <= y][2]
Normalize(found_name) ==
    IF \E e \in normalization_map : e[1] = found_name
    THEN (CHOOSE e \in normalization_map : e[1] = found_name)[2]
    ELSE found_name

\* lines 96-99: the place in typos of the first typo that part_lower holds,
\* 0 when it holds none
FirstTypoLast(part_lower) ==
    LET hits == { x \in DOMAIN typos : Contains(typos[x][1], part_lower) }
    IN  IF hits = {} THEN 0 ELSE CHOOSE x \in hits : \A y \in hits : x >= y
FirstTypo(part_lower) ==
    LET hits == { x \in DOMAIN typos : Contains(typos[x][1], part_lower) }
    IN  IF hits = {} THEN 0 ELSE CHOOSE x \in hits : \A y \in hits : x <= y

\* line 104
HasHostOrAdvisory(part_lower) ==
    Contains(<<"h", "o", "s", "t">>, part_lower) \/ Contains(<<"a", "d", "v", "i", "s", "o", "r", "y">>, part_lower)

\* line 108: the host label is added
HostAllowedAlways(found) == TRUE
HostAllowed(found) == found = <<>>

\* lines 71-113: what one part appends to found_groups: <<>> or one label
PartLabels(raw, found) ==
    LET part == Strip(raw)
        part_lower == Lower(part)
    IN  IF part = <<>> THEN <<>>
        ELSE IF ReSearch(part) # <<>> THEN <<Normalize(Upper(ReSearch(part)))>>
        ELSE IF FirstTypo(part_lower) # 0 THEN <<typos[FirstTypo(part_lower)][2]>>
        ELSE IF HasHostOrAdvisory(part_lower) /\ HostAllowed(found)
             THEN <<HostAdvisory>>
        ELSE <<>>

\* lines 68-113: found_groups after the loop over ps
RECURSIVE CollectLabels(_)
CollectLabels(ps) ==
    IF ps = <<>> THEN <<>>
    ELSE LET found == CollectLabels(SubSeq(ps, 1, Len(ps) - 1))
         IN  found \o PartLabels(ps[Len(ps)], found)

\* line 116: list(set(found_groups)): the distinct labels in the order the
\* set yields them, which str hashing decides anew in every run
OrderingsNoHost(S) ==
    { l \in [1..Cardinality(S \ {HostAdvisory}) -> S \ {HostAdvisory}] :
        Range(l) = S \ {HostAdvisory} }
Orderings(S) == { l \in [1..Cardinality(S) -> S] : Range(l) = S }

\* lines 13-31: the field is blank, a "no" or a bare "yes"
IsBlank(field) == field = <<>> \/ Strip(field) = <<>>
IsNoCaseSensitive(field) == Strip(field) \in no_responses
IsNo(field) == Lower(Strip(field)) \in no_responses
IsYes(field) == Lower(Strip(field)) \in yes_responses

\* line 125
HoldsYesExact(field) == Lower(Strip(field)) = <<"y", "e", "s">>
HoldsYes(field) == Contains(<<"y", "e", "s">>, Lower(Strip(field)))

\* Bound of the model: how many mentions a composed field joins.
MaxMentions == 2

\* The fields extract_groups is given: the phrases, and up to MaxMentions
\* mentions joined by the separators.
Phrases ==
    { <<" ">>, <<"N", "O">>, <<"N", "o", "p", "e">>, <<"n">>, <<"n", "a", "n">>, <<"n", "o", "t", " ", "y", "e", "t">>, <<"n", "o", "t", " ", "y", "e", "t", "!">>, <<"m", "a", "y", "b", "e">>,
      <<"h", "e", "l", "l", " ", "n", "o">>, <<"n", "a", "u", "r">>, <<"n", "o", "t", " ", "r", "i", "g", "h", "t", " ", "n", "o", "w">>, <<"n", "o", "t", " ", "c", "u", "r", "r", "e", "n", "t", "l", "y">>,
      <<"n", "o", "t", " ", "a", "t", " ", "t", "h", "i", "s", " ", "t", "i", "m", "e">>, <<"n", "o", "t", " ", "t", "h", "i", "s", " ", "y", "e", "a", "r">>, <<"t", "h", "e", "r", "e", " ", "i", "s", "n", "t", " ", "o", "n", "e", " ", "n", "e", "a", "r", " ", "m", "e", " ", ":", "(">>,
      <<"n", "e", "g", "a", "t", "i", "v", "e", "/", "s", "u", "p", "p", "o", "r", "t", "e", "r", "/", "c", "h", "e", "e", "r", "l", "e", "a", "d", "e", "r">>, <<"N", "e", "g", "a", "t", "i", "v", "e", "/", "S", "u", "p", "p", "o", "r", "t", "e", "r", "/", "C", "h", "e", "e", "r", "l", "e", "a", "d", "e", "r", " ">>,
      <<"y", "e", "s">>, <<"Y", "e", "s", "!">>, <<"y", "e", "a">>, <<"y", "e", "s", " ", ".">>, <<"w", "h", "y", " ", "y", "e", "s", " ", "i", " ", "a", "m">>, <<" ", "Y", "E", "S", " ">>,
      <<"h", "e", "l", "l", " ", "y", "e", "s">>, <<"o", "h", " ", "y", "e", "s", ",", " ", "s", "u", "r", "e">>, <<"e", "y", "e", "s">>, <<"m", "a", "y", "b", "e", " ", "l", "a", "t", "e", "r">>, <<"n", "o", "b", "o", "d", "y">>,
      <<"u", "c", "p", "a", "a">>, <<"s", "l", "t", "y", "p", "a", "a">>, <<"b", "u", "t", "t", "e", "y">>, <<"w", "a", "c", "y">>, <<"s", "a", "c", "y">>, <<"r", "e", "n", "v", "y">>, <<"r", "e", "n", "y", "p", "a", "a">>,
      <<"s", "w", "a", "c">>, <<"s", "w", "a", "c", "y", "p", "a">>, <<"b", "u", "r", "q", "u", "y", "p", "a", "a">>, <<"b", "u", "r", "q", "y", "p", "q", "a", "a">>, <<"n", "a", "c", "y", "p", "a">>, <<"c", "c", "p", "a", "a">>,
      <<"b", "e", "l", "l", "y", "p", "a">>, <<"t", "i", "t", "y">>,
      <<"U", "C", "Y", "P", "A", "A">>, <<"B", "U", "T", "T", "E", "Y", "P", "A", "A">>, <<"S", "A", "C", "Y", "P", "A", "A">>, <<"R", "E", "N", "V", "Y", "P", "A", "A">>, <<"S", "W", "A", "C", "Y", "P", "A", "A">>,
      <<"B", "U", "R", "Q", "Y", "P", "A", "A">>, <<"N", "A", "C", "Y", "P", "A", "A">>, <<"C", "C", "Y", "P", "A", "A">>, <<"B", "E", "L", "L", "Y", "P", "A", "A">>, <<"B", "A", "C", "Y", "P", "A", "A">>, <<"T", "I", "T", "Y", "P", "A", "A">>,
      <<"S", "A", "L", "T", "Y", "P", "A", "A">>, <<"S", "L", "U", "T", "Y", "P", "A", "A">>, <<"S", "L", "T", "Y", "P", "A", "A">>,
      <<"W", "A", "C", "Y", "P", "A", "A", " ", "H", "o", "s", "t">>, <<"H", "o", "s", "t", "i", "n", "g", " ", "W", "A", "C", "Y", "P", "A", "A">>, <<"w", "a", "c", "y", "p", "a", "a", " ", "b", "a", "c", "y", "p", "a", "a">>, <<"y", "p", "a", "a">>,
      <<"W", "A", "C", "Y", "P", "A", "A", "2", "7">>, <<"2", "7", "Y", "P", "A", "A">>, <<"W", "A", "C", "-", "Y", "P", "A", "A">>, <<"m", "y", "_", "y", "p", "a", "a">>, <<"S", "w", "a", "c", " ", "X", "I">>,
      <<"t", "h", "e", " ", "u", "c", "p", "a", "a", " ", "h", "o", "s", "t">>, <<"g", "h", "o", "s", "t">>, <<"a", "d", "v", "i", "s", "o", "r", "y", " ", "b", "o", "a", "r", "d">>, <<"h", "e", "l", "l", "o", " ", "w", "o", "r", "l", "d">>,
      <<"m", "c", "d", "o", "n", "a", "l", "d", "-", "o", "2", " ", "x">>, <<"W", "A", "C", " ", "a", "n", "d", " ", "B", "A", "C", "Y", " ", "h", "o", "s", "t">>, <<"H", "o", "s", "t", " ", " ", "a", "n", "d", " ", " ", "W", "A", "C">>,
      <<"a", "n", "d", " ", "h", "e", "l", "l", "o", " ", "a", "n", "d">>, <<"/", ",", "&">>, <<"h", "o", "s", "t", "/", "b", "a", "c", "y", " ", "&", " ", "n", "o">> }
Mentions ==
    { <<>>, <<"W", "A", "C">>, <<"B", "A", "C", "Y">>, <<"W", "A", "C", "Y", "P", "A", "A">>, <<"s", "l", "u", "t", "y", "p", "a", "a">>, <<"H", "o", "s", "t">>, <<"a", "d", "v", "i", "s", "o", "r", "y">>,
      <<"y", "e", "s">>, <<"n", "o">>, <<"h", "e", "l", "l", "o">> }
Separators == { <<"/">>, <<",", " ">>, <<" ", "&", " ">>, <<" ", "a", "n", "d", " ">>, <<" ", "A", "N", "D", " ">>, <<" ">> }

RECURSIVE Joined(_)
Joined(n) ==
    IF n = 1 THEN Mentions
    ELSE { f \o sep \o m : f \in Joined(n - 1), sep \in Separators, m \in Mentions }
Fields == Phrases \cup UNION { Joined(n) : n \in 1..MaxMentions }

\* The grouping's variables while extract_groups runs.
SimIdle ==
    /\ rows = <<>> /\ cutoff = DefaultCutoff /\ counts = <<>>
    /\ unique_vals = <<>> /\ groups = <<>> /\ visited = {}
    /\ i = 0 /\ j = 0 /\ current_group = <<>> /\ pc = "idle"

ExtInit ==
    /\ name \in Fields
    /\ parts = <<>> /\ k = 0 /\ found_groups = <<>> /\ result = <<>>
    /\ epc = "start"
    /\ SimIdle /\ RegIdle /\ TallyIdle

\* lines 13-14
ReturnBlank ==
    /\ epc = "start"
    /\ IsBlank(name)
    /\ result' = <<NotSpecified>>
    /\ epc' = "done"
    /\ UNCHANGED <<name, parts, k, found_groups, simVars, regVars, tallyVars>>

\* lines 16-27
ReturnNo ==
    /\ epc = "start"
    /\ ~IsBlank(name)
    /\ IsNo(name)
    /\ result' = <<NotSpecified>>
    /\ epc' = "done"
    /\ UNCHANGED <<name, parts, k, found_groups, simVars, regVars, tallyVars>>

\* lines 30-31
ReturnYes ==
    /\ epc = "start"
    /\ ~IsBlank(name) /\ ~IsNo(name)
    /\ IsYes(name)
    /\ result' = <<YesUnspecified>>
    /\ epc' = "done"
    /\ UNCHANGED <<name, parts, k, found_groups, simVars, regVars, tallyVars>>

\* lines 66-68
SplitField ==
    /\ epc = "start"
    /\ ~IsBlank(name) /\ ~IsNo(name) /\ ~IsYes(name)
    /\ parts' = ReSplit(name)
    /\ found_groups' = <<>>
    /\ k' = 1
    /\ epc' = "loop"
    /\ UNCHANGED <<name, result, simVars, regVars, tallyVars>>

\* lines 70-73: an empty part
SkipEmptyPart ==
    /\ epc = "loop" /\ k <= Len(parts)
    /\ Strip(parts[k]) = <<>>
    /\ k' = k + 1
    /\ UNCHANGED <<name, parts, found_groups, result, epc, simVars, regVars, tallyVars>>

\* lines 85-92: the part holds a ...YPAA word
TakeYpaaName ==
    /\ epc = "loop" /\ k <= Len(parts)
    /\ Strip(parts[k]) # <<>>
    /\ ReSearch(Strip(parts[k])) # <<>>
    /\ found_groups' =
          Append(found_groups, Normalize(Upper(ReSearch(Strip(parts[k])))))
    /\ k' = k + 1
    /\ UNCHANGED <<name, parts, result, epc, simVars, regVars, tallyVars>>

\* lines 96-99: the part holds a typo
TakeTypo ==
    /\ epc = "loop" /\ k <= Len(parts)
    /\ Strip(parts[k]) # <<>>
    /\ ReSearch(Strip(parts[k])) = <<>>
    /\ FirstTypo(Lower(Strip(parts[k]))) # 0
    /\ found_groups' =
          Append(found_groups, typos[FirstTypo(Lower(Strip(parts[k])))][2])
    /\ k' = k + 1
    /\ UNCHANGED <<name, parts, result, epc, simVars, regVars, tallyVars>>

\* lines 100-113: the part holds neither; it names a host or an advisor
TakeHost ==
    /\ epc = "loop" /\ k <= Len(parts)
    /\ Strip(parts[k]) # <<>>
    /\ ReSearch(Strip(parts[k])) = <<>>
    /\ FirstTypo(Lower(Strip(parts[k]))) = 0
    /\ HasHostOrAdvisory(Lower(Strip(parts[k])))
    /\ found_groups' = IF HostAllowed(found_groups)
                       THEN Append(found_groups, HostAdvisory)
                       ELSE found_groups
    /\ k' = k + 1
    /\ UNCHANGED <<name, parts, result, epc, simVars, regVars, tallyVars>>

\* lines 100-104: the part holds nothing known
TakeNothing ==
    /\ epc = "loop" /\ k <= Len(parts)
    /\ Strip(parts[k]) # <<>>
    /\ ReSearch(Strip(parts[k])) = <<>>
    /\ FirstTypo(Lower(Strip(parts[k]))) = 0
    /\ ~HasHostOrAdvisory(Lower(Strip(parts[k])))
    /\ k' = k + 1
    /\ UNCHANGED <<name, parts, found_groups, result, epc, simVars, regVars, tallyVars>>

\* lines 115-116
ReturnFound ==
    /\ epc = "loop" /\ k > Len(parts)
    /\ found_groups # <<>>
    /\ result' \in Orderings(Range(found_groups))
    /\ epc' = "done"
    /\ UNCHANGED <<name, parts, k, found_groups, simVars, regVars, tallyVars>>

\* lines 125-126
ReturnYesUnspecified ==
    /\ epc = "loop" /\ k > Len(parts)
    /\ found_groups = <<>>
    /\ HoldsYes(name)
    /\ result' = <<YesUnspecified>>
    /\ epc' = "done"
    /\ UNCHANGED <<name, parts, k, found_groups, simVars, regVars, tallyVars>>

\* line 128
ReturnTitle ==
    /\ epc = "loop" /\ k > Len(parts)
    /\ found_groups = <<>>
    /\ ~HoldsYes(name)
    /\ result' = <<Title(Strip(name))>>
    /\ epc' = "done"
    /\ UNCHANGED <<name, parts, k, found_groups, simVars, regVars, tallyVars>>

ExtNext ==
    \/ ReturnBlank
    \/ ReturnNo
    \/ ReturnYes
    \/ SplitField
    \/ SkipEmptyPart
    \/ TakeYpaaName
    \/ TakeTypo
    \/ TakeHost
    \/ TakeNothing
    \/ ReturnFound
    \/ ReturnYesUnspecified
    \/ ReturnTitle

ExtSpec == ExtInit /\ [][ExtNext]_vars

\* The loop over the parts and its one-function form agree.
ExtAgree ==
    epc = "loop" => found_groups = CollectLabels(SubSeq(parts, 1, k - 1))

---------------------------------------------------------------------------
(* Properties of analyze_similarity                                        *)

\* The groups there are: the closed ones and, inside the candidate loop, the
\* one being built.
OpenGroups == groups \o (IF pc = "candidate" THEN <<current_group>> ELSE <<>>)

GroupMembers(g) == { g[x][1] : x \in DOMAIN g }
Grouped(gs) == UNION { GroupMembers(gs[x]) : x \in DOMAIN gs }

\* How many places of the groups gs hold the value v.
Places(v, gs) ==
    Cardinality({ xy \in (DOMAIN gs) \X (1..Cardinality(DOMAIN unique_vals)) :
                    xy[2] <= Len(gs[xy[1]]) /\ gs[xy[1]][xy[2]][1] = v })

\* The ratio of root to candidate is at least c hundredths.
RatioAtLeast(root, candidate, c) ==
    Ratio(root, candidate)[1] * 100 >= c * Ratio(root, candidate)[2]

PositionOf(v) == CHOOSE x \in DOMAIN unique_vals : unique_vals[x] = v

\* C2: at every step and in the output, a value holds at most one place of
\* all the groups and every grouped value is visited; a step places a value in
\* a group only if it was unvisited, marks it visited in doing so, and never
\* removes a value from the visited set (so it is never a root or a candidate
\* again).
C2_AtMostOneGroup ==
    /\ [](\A v \in Range(unique_vals) :
             /\ Places(v, OpenGroups) <= 1
             /\ Places(v, OpenGroups) = 1 => v \in visited)
    /\ [][/\ visited \subseteq visited'
          /\ \A v \in Range(unique_vals) :
                Places(v, OpenGroups') > Places(v, OpenGroups)
                   => v \notin visited /\ v \in visited']_vars

\* A visited candidate is passed over while an earlier group holds it.
C2_Witness ==
    /\ pc = "candidate" /\ j <= Len(unique_vals)
    /\ unique_vals[j] \in Grouped(groups)

\* C3: every closed group has at least 2 members, its first member comes
\* before the others in the sorted values, and each other member's ratio to
\* the first is at least the cutoff; a value whose ratio to and from every
\* other value is below the cutoff is in no closed group.
C3_GroupsAreSimilar ==
    /\ \A x \in DOMAIN groups :
          /\ Len(groups[x]) >= 2
          /\ \A y \in 2..Len(groups[x]) :
                /\ PositionOf(groups[x][1][1]) < PositionOf(groups[x][y][1])
                /\ RatioAtLeast(groups[x][1][1], groups[x][y][1], cutoff)
    /\ \A v \in Range(unique_vals) :
          (\A w \in Range(unique_vals) \ {v} :
              ~RatioAtLeast(v, w, cutoff) /\ ~RatioAtLeast(w, v, cutoff))
             => v \notin Grouped(groups)

\* The output holds a group and leaves a value out.
C3_Witness ==
    /\ pc = "done" /\ groups # <<>>
    /\ Range(unique_vals) \ Grouped(groups) # {}

\* C4 as claimed: a value grouped with the cutoff is grouped with every
\* lower cutoff.
C4_Monotone ==
    pc = "done" =>
       \A c1 \in Cutoffs :
          c1 < cutoff => Grouped(groups) \subseteq Grouped(Cluster(unique_vals, counts, c1))

\* C4 as amended: of a group's root and any other member of it, at least one
\* is grouped with every lower cutoff.
C4_RootOrMemberStaysGrouped ==
    pc = "done" =>
       \A c1 \in Cutoffs :
          c1 < cutoff =>
             \A x \in DOMAIN groups : \A y \in 2..Len(groups[x]) :
                \/ groups[x][1][1] \in Grouped(Cluster(unique_vals, counts, c1))
                \/ groups[x][y][1] \in Grouped(Cluster(unique_vals, counts, c1))

\* The output differs from that of a lower cutoff in a value it groups.
C4_Witness ==
    /\ pc = "done"
    /\ \E c1 \in Cutoffs :
          /\ c1 < cutoff
          /\ Grouped(groups) \ Grouped(Cluster(unique_vals, counts, c1)) # {}

\* |x|
Abs(x) == IF x < 0 THEN -x ELSE x

\* C5: no member of a group differs in length from the group's root by more
\* than len(root) * (1 - cutoff) + 2 (stated for the cutoff the code sets).
C5_LengthPruned ==
    cutoff = DefaultCutoff =>
    \A x \in DOMAIN OpenGroups : \A y \in 2..Len(OpenGroups[x]) :
       Abs(Len(OpenGroups[x][1][1]) - Len(OpenGroups[x][y][1])) * 100
          <= Len(OpenGroups[x][1][1]) * (100 - cutoff) + 200

\* C12: the values are scanned in ascending order, and a member of a group
\* has a ratio below the cutoff from every value before its root that was
\* itself a root (that is, is no other member of any group).
C12_FirstRootClaims ==
    /\ \A x \in 1..(Len(unique_vals) - 1) : StrLess(unique_vals[x], unique_vals[x + 1])
    /\ \A x \in DOMAIN OpenGroups : \A y \in 2..Len(OpenGroups[x]) :
          \A v \in Range(unique_vals) :
             (/\ PositionOf(v) < PositionOf(OpenGroups[x][1][1])
              /\ \A g \in DOMAIN OpenGroups : \A z \in 2..Len(OpenGroups[g]) :
                    OpenGroups[g][z][1] # v)
                => ~RatioAtLeast(v, OpenGroups[x][y][1], cutoff)

\* A group holds two members that are not alike, the later of which was
\* entered into no comparison with the earlier.
C12_Witness ==
    /\ pc = "done"
    /\ \E x \in DOMAIN groups : \E y, z \in 2..Len(groups[x]) :
          /\ y < z
          /\ ~RatioAtLeast(groups[x][y][1], groups[x][z][1], cutoff)

\* The orders the rows may come in.
RowOrders(cells) ==
    { [x \in DOMAIN cells |-> cells[f[x]]] :
        f \in { f \in [DOMAIN cells -> DOMAIN cells] : Range(f) = DOMAIN cells } }

\* C13: the output is that of every other order of the same rows: the same
\* groups, in the same order, with the same members in the same order.
C13_RowOrderIrrelevant ==
    pc = "done" =>
       \A other \in RowOrders(rows) :
          groups = Cluster(SortStrings(Keys(Values(other))),
                           Counter(Values(other)), cutoff)

\* The rows came in another order than the sorted one and gave a group.
C13_Witness ==
    /\ pc = "done" /\ groups # <<>>
    /\ Keys(Values(rows)) # unique_vals

\* C14: two distinct values that are equal in lower case are in one output
\* group, with their counts, which the group's total therefore includes.
C14_CaseInsensitive ==
    pc = "done" =>
       \A v, w \in Range(unique_vals) :
          (v # w /\ Lower(v) = Lower(w)) =>
             \E x \in DOMAIN groups :
                /\ <<v, counts[v]>> \in Range(groups[x])
                /\ <<w, counts[w]>> \in Range(groups[x])
                /\ GroupTotal(groups[x]) >= counts[v] + counts[w]

\* Two such values are grouped at the highest cutoff, one of them counted
\* more than once.
C14_Witness ==
    /\ pc = "done" /\ cutoff = 100
    /\ \E v, w \in Range(unique_vals) :
          v # w /\ Lower(v) = Lower(w) /\ counts[v] > 1

\* C15: in the output each group's total is at least the next group's, and
\* a column without values gives no group.
C15_SortedByTotal ==
    pc = "done" =>
       /\ \A x \in 1..(Len(groups) - 1) :
             GroupTotal(groups[x]) >= GroupTotal(groups[x + 1])
       /\ unique_vals = <<>> => groups = <<>>

\* Two groups came out, the one of the later root first.
C15_Witness ==
    /\ pc = "done" /\ Len(groups) = 2
    /\ GroupTotal(groups[1]) > GroupTotal(groups[2])
    /\ PositionOf(groups[1][1][1]) > PositionOf(groups[2][1][1])

\* A column without values has been grouped.
C15_EmptyWitness == pc = "done" /\ rows = <<>> /\ groups = <<>>

---------------------------------------------------------------------------
(* Properties of extract_groups                                            *)

\* The labels of l, each once, in the order in which l first holds them.
RECURSIVE FirstSeen(_)
FirstSeen(l) ==
    IF l = <<>> THEN <<>>
    ELSE LET before == FirstSeen(SubSeq(l, 1, Len(l) - 1))
         IN  IF l[Len(l)] \in Range(before) THEN before
             ELSE Append(before, l[Len(l)])

\* C1: when the parts yield a label, the returned list holds every collected
\* label once, in the order in which the parts first yielded them.
C1_FirstSeenOrder ==
    (epc = "done" /\ found_groups # <<>>) => result = FirstSeen(found_groups)

\* The trimmed, lower-cased field.
Folded == Lower(Strip(name))

\* C6: a field that, trimmed and lower-cased, is empty or a negative idiom
\* returns exactly the "not specified" label, and one that is a bare
\* affirmative returns exactly the "yes" label, whatever separators it holds.
C6_IdiomsFirst ==
    epc = "done" =>
       /\ (Folded = <<>> \/ Folded \in no_responses) => result = <<NotSpecified>>
       /\ Folded \in yes_responses => result = <<YesUnspecified>>

\* An idiom that holds a separator, or is not in lower case, has returned.
C6_Witness ==
    /\ epc = "done"
    /\ Folded \in no_responses
    /\ \/ \E p \in DOMAIN name : SeparatorAt(name, p) > 0
       \/ Strip(name) # Folded

\* The part the loop is at, trimmed.
Part == Strip(parts[k])
\* The part the loop has just left, trimmed.
LastPart == Strip(parts[k - 1])

\* The whole words of s that are letters ending in YPAA, in any case: <<first
\* position, last position>>.
YpaaWords(s) ==
    { w \in (DOMAIN s) \X (DOMAIN s) :
        /\ w[1] + 3 <= w[2]
        /\ \A x \in w[1]..w[2] : IsAlpha(s[x])
        /\ Upper(SubSeq(s, w[2] - 3, w[2])) = <<"Y", "P", "A", "A">>
        /\ (w[1] = 1 \/ ~IsWord(s[w[1] - 1]))
        /\ (w[2] = Len(s) \/ ~IsWord(s[w[2] + 1])) }
FirstYpaaWord(s) ==
    LET w == CHOOSE w \in YpaaWords(s) : \A u \in YpaaWords(s) : w[1] <= u[1]
    IN  SubSeq(s, w[1], w[2])

\* C7: a part that holds a whole word ending in YPAA appends exactly one
\* label: the first such word in upper case, or what the normalization map
\* gives for it; neither a typo's correction nor the host label.
C7_YpaaWordWins ==
    [][(epc = "loop" /\ k <= Len(parts) /\ YpaaWords(Part) # {})
          => found_groups' =
                Append(found_groups, Normalize(Upper(FirstYpaaWord(Part))))]_vars

\* A part with two YPAA words, or with one and a host, has been passed.
C7_Witness ==
    /\ epc = "loop" /\ k > 1
    /\ YpaaWords(LastPart) # {}
    /\ \/ Cardinality(YpaaWords(LastPart)) > 1
       \/ HasHostOrAdvisory(Lower(LastPart))
    /\ Len(found_groups) = 1

\* The places in typos of the typos that s holds.
TyposIn(s) == { x \in DOMAIN typos : Contains(typos[x][1], Lower(s)) }

\* C8: a part with no YPAA word appends the correction of the first typo of
\* the table that it holds and nothing else; a part that holds no typo appends
\* no name (at most the host label).
C8_FirstTypoWins ==
    [][(epc = "loop" /\ k <= Len(parts) /\ Part # <<>> /\ YpaaWords(Part) = {})
          => IF TyposIn(Part) # {}
             THEN \E x \in TyposIn(Part) :
                     /\ \A y \in TyposIn(Part) : x <= y
                     /\ found_groups' = Append(found_groups, typos[x][2])
             ELSE found_groups' \in {found_groups, Append(found_groups, HostAdvisory)}
       ]_vars

\* A part holding two typos of different corrections has been passed.
C8_Witness ==
    /\ epc = "loop" /\ k > 1
    /\ YpaaWords(LastPart) = {}
    /\ \E x, y \in TyposIn(LastPart) : x < y /\ typos[x][2] # typos[y][2]
    /\ found_groups # <<>>

\* C9: the host label is appended only for a part that holds "host" or
\* "advisory" and only while no label has been collected; once a label is
\* collected, a part that holds no name and a host appends nothing.
C9_HostOnlyFirst ==
    [][(epc = "loop" /\ k <= Len(parts))
          => /\ found_groups' = Append(found_groups, HostAdvisory)
                  => found_groups = <<>> /\ HasHostOrAdvisory(Lower(Part))
             /\ (/\ found_groups # <<>>
                 /\ YpaaWords(Part) = {} /\ TyposIn(Part) = {}
                 /\ HasHostOrAdvisory(Lower(Part)))
                  => found_groups' = found_groups]_vars

\* A host part has been passed after a label was collected.
C9_Witness ==
    /\ epc = "loop" /\ k > 2
    /\ YpaaWords(LastPart) = {} /\ TyposIn(LastPart) = {}
    /\ HasHostOrAdvisory(Lower(LastPart))
    /\ found_groups # <<>>
    /\ HostAdvisory \notin Range(found_groups)

\* C10: a field that is no idiom and whose parts yield no label returns the
\* "yes" label if, trimmed and lower-cased, it holds "yes", and else its
\* trimmed text in title case.
C10_Fallback ==
    (/\ epc = "done"
     /\ Folded # <<>> /\ Folded \notin no_responses /\ Folded \notin yes_responses
     /\ found_groups = <<>>)
       => result = IF Contains(<<"y", "e", "s">>, Folded) THEN <<YesUnspecified>>
                   ELSE <<Title(Strip(name))>>

\* A field of several parts has come back in title case, changed by it.
C10_Witness ==
    /\ epc = "done"
    /\ Len(parts) > 1
    /\ found_groups = <<>>
    /\ result = <<Title(Strip(name))>>
    /\ Title(Strip(name)) # Strip(name)

\* The split of line 66 with `and` read in any letter case.
AndAnyCaseAt(s, p) ==
    IF s[p] \in {"/", ",", "&"} THEN 1
    ELSE LET w == SpaceRun(s, p)
         IN  IF /\ w > 0
                /\ p + w + 2 <= Len(s)
                /\ Lower(SubSeq(s, p + w, p + w + 2)) = <<"a", "n", "d">>
                /\ SpaceRun(s, p + w + 3) > 0
             THEN w + 3 + SpaceRun(s, p + w + 3)
             ELSE 0
RECURSIVE SplitAnyCaseFrom(_, _, _)
SplitAnyCaseFrom(s, from, p) ==
    IF p > Len(s) THEN <<SubSeq(s, from, Len(s))>>
    ELSE IF AndAnyCaseAt(s, p) > 0
         THEN <<SubSeq(s, from, p - 1)>>
              \o SplitAnyCaseFrom(s, p + AndAnyCaseAt(s, p), p + AndAnyCaseAt(s, p))
    ELSE SplitAnyCaseFrom(s, from, p + 1)

\* C11: the field is split at the word `and` between white space in any
\* letter case, and the labels returned are those of the parts so split:
\* ` AND ` separates two mentions as ` and ` does.
C11_AndAnyCase ==
    (epc = "loop" /\ k > Len(parts)) =>
       found_groups = CollectLabels(SplitAnyCaseFrom(name, 1, 1))

\* The codes the two tables map to.
CanonicalCodes ==
    { e[2] : e \in normalization_map } \cup { typos[x][2] : x \in DOMAIN typos }

\* C16: a field that is one canonical code comes back as that code alone.
C16_CanonicalFixed ==
    (epc = "done" /\ name \in CanonicalCodes) => result = <<name>>

\* A canonical code that holds the typo of another code came back unchanged.
C16_Witness ==
    /\ epc = "done" /\ name \in CanonicalCodes /\ result = <<name>>
    /\ \E x \in TyposIn(name) : typos[x][2] # name

\* C17: what a call returns is a list that is not empty, and the call gets
\* there without leaving its course: the loop stands at a part of the field
\* or just past the last one, and every step either moves it one part on or
\* returns, so at most Len(parts) + 2 steps are taken.
C17_Total ==
    /\ [](epc = "done" => Len(result) >= 1)
    /\ [](epc = "loop" => (Len(parts) >= 1 /\ k \in 1..(Len(parts) + 1)))
    /\ [][\/ epc = "start" /\ epc' \in {"loop", "done"}
          \/ epc = "loop" /\ epc' = "loop" /\ k' = k + 1
          \/ epc = "loop" /\ epc' = "done" /\ k = Len(parts) + 1]_vars

\* A field of separators only, every part of it empty, gave a label.
C17_Witness ==
    /\ epc = "done" /\ Len(parts) > 1
    /\ \A x \in DOMAIN parts : Strip(parts[x]) = <<>>
    /\ Len(result) = 1

\* C19: a field that is one key of the typo table comes back as the
\* correction the table gives for that key.
C19_TypoKeyCorrected ==
    epc = "done" =>
       \A x \in DOMAIN typos : name = typos[x][1] => result = <<typos[x][2]>>

---------------------------------------------------------------------------
(* analyze_csv of analyze_registrations_count.py: the products of one row   *)

\* str.split('\n'), line 65
RECURSIVE SplitLines(_)
SplitLines(s) ==
    LET breaks == { x \in DOMAIN s : s[x] = "\n" }
    IN  IF breaks = {} THEN <<s>>
        ELSE LET p == CHOOSE x \in breaks : \A y \in breaks : x <= y
             IN  <<SubSeq(s, 1, p - 1)>> \o SplitLines(SubSeq(s, p + 1, Len(s)))

\* the literal lit stands at position p of s (str.startswith for p = 1)
LitAt(s, p, lit) ==
    p + Len(lit) - 1 <= Len(s) /\ SubSeq(s, p, p + Len(lit) - 1) = lit

\* the length of the longest run, from position p of s, of characters in C
\* (of characters not in C): what a greedy character class takes
RunIn(s, p, C) ==
    LET stops == { x \in p..Len(s) : s[x] \notin C }
    IN  (IF stops = {} THEN Len(s) + 1
         ELSE CHOOSE x \in stops : \A y \in stops : x <= y) - p
RunNotIn(s, p, C) ==
    LET stops == { x \in p..Len(s) : s[x] \in C }
    IN  (IF stops = {} THEN Len(s) + 1
         ELSE CHOOSE x \in stops : \A y \in stops : x <= y) - p

\* lines 51-53, the pattern from `, Quantity:` on, matched at position c:
\*    , Quantity:\s*(\d+)(?:, Registration Type:\s*([^,)]+))?.*?\)
\* The digits are taken greedily; what follows them matches exactly when a
\* `)` stands somewhere after them, with or without the optional group.
QuantityStart(s, c) == c + 11 + SpaceRun(s, c + 11)
QuantityDigits(s, c) ==
    IF LitAt(s, c, <<",", " ", "Q", "u", "a", "n", "t", "i", "t", "y", ":">>) THEN RunIn(s, QuantityStart(s, c), DigitSet) ELSE 0
Closes(s, p) == \E x \in p..Len(s) : s[x] = ")"
QuantityAt(s, c) ==
    /\ QuantityDigits(s, c) >= 1
    /\ Closes(s, QuantityStart(s, c) + QuantityDigits(s, c))

\* the optional group at position q, after the quantity's digits: group(4),
\* <<>> for None.  \s* takes all the white space and [^,)]+ all that follows
\* up to a comma or a parenthesis; when nothing follows, \s* gives its last
\* character back to the class.
TypeGroup(s, q) ==
    IF ~LitAt(s, q, <<",", " ", "R", "e", "g", "i", "s", "t", "r", "a", "t", "i", "o", "n", " ", "T", "y", "p", "e", ":">>) THEN <<>>
    ELSE LET t == q + 20 + SpaceRun(s, q + 20)
             r == RunNotIn(s, t, {",", ")"})
         IN  IF r >= 1 THEN SubSeq(s, t, t + r - 1)
             ELSE IF SpaceRun(s, q + 20) >= 1 THEN <<s[t - 1]>>
             ELSE <<>>

\* the pattern from \s*\(Amount: on, matched at position p:
\*    \s*\(Amount:\s*([\d\.]+).*?, Quantity: ...
AmountStart(s, p) ==
    p + SpaceRun(s, p) + 8 + SpaceRun(s, p + SpaceRun(s, p) + 8)
AmountLength(s, p) == RunIn(s, AmountStart(s, p), DigitSet \cup {"."})
HeadAt(s, p) ==
    /\ LitAt(s, p + SpaceRun(s, p), <<"(", "A", "m", "o", "u", "n", "t", ":">>)
    /\ AmountLength(s, p) >= 1
    /\ \E c \in (AmountStart(s, p) + AmountLength(s, p))..Len(s) : QuantityAt(s, c)

\* line 73: product_pattern.search(line): <<>> when nothing matches, else
\* the four groups.  The lazy (.*?) ends at the first position where the
\* rest matches, and the lazy .*? before `, Quantity:` likewise.
ProductSearch(s) ==
    LET heads == { e \in 0..Len(s) : HeadAt(s, e + 1) }
    IN  IF heads = {} THEN <<>>
        ELSE LET e == CHOOSE e \in heads : \A y \in heads : e <= y
                 a == AmountStart(s, e + 1)
                 n == AmountLength(s, e + 1)
                 c == CHOOSE c \in (a + n)..Len(s) :
                         /\ QuantityAt(s, c)
                         /\ \A y \in (a + n)..(c - 1) : ~QuantityAt(s, y)
                 d == QuantityStart(s, c)
             IN  << SubSeq(s, 1, e),
                    SubSeq(s, a, a + n - 1),
                    SubSeq(s, d, d + QuantityDigits(s, c) - 1),
                    TypeGroup(s, d + QuantityDigits(s, c)) >>

\* int() of a string of digits, line 85
RECURSIVE ToInt(_)
ToInt(digits) ==
    IF digits = <<>> THEN 0
    ELSE 10 * ToInt(SubSeq(digits, 1, Len(digits) - 1))
         + (IndexIn(Digits, digits[Len(digits)]) - 1)

RECURSIVE Power10(_)
Power10(n) == IF n = 0 THEN 1 ELSE 10 * Power10(n - 1)

RECURSIVE DropZeros(_)
DropZeros(digits) ==
    IF digits # <<>> /\ digits[Len(digits)] = "0"
    THEN DropZeros(SubSeq(digits, 1, Len(digits) - 1)) ELSE digits

\* lines 77-83: float() of a string of digits and dots, made an int when it
\* is one, and 0 when float() raises ValueError (two dots, or no digit).
\* A price is <<is it an int, numerator, denominator>>.
PriceOfAsFloat(text) ==
    LET dots == { x \in DOMAIN text : text[x] = "." }
    IN  IF Cardinality(dots) > 1 \/ Cardinality(dots) = Len(text)
        THEN <<TRUE, 0, 1>>
        ELSE LET dot == IF dots = {} THEN Len(text) + 1 ELSE CHOOSE x \in dots : TRUE
                 whole == SubSeq(text, 1, dot - 1)
                 frac == SubSeq(text, dot + 1, Len(text))
             IN  <<FALSE, ToInt(whole \o frac), Power10(Len(frac))>>
PriceOf(text) ==
    LET dots == { x \in DOMAIN text : text[x] = "." }
    IN  IF Cardinality(dots) > 1 \/ Cardinality(dots) = Len(text)
        THEN <<TRUE, 0, 1>>
        ELSE LET dot == IF dots = {} THEN Len(text) + 1 ELSE CHOOSE x \in dots : TRUE
                 whole == SubSeq(text, 1, dot - 1)
                 frac == DropZeros(SubSeq(text, dot + 1, Len(text)))
             IN  IF frac = <<>> THEN <<TRUE, ToInt(whole), 1>>
                 ELSE <<FALSE, ToInt(whole \o frac), Power10(Len(frac))>>

\* line 86
RegTypeOf(group4) == IF group4 # <<>> THEN Strip(group4) ELSE <<"U", "n", "s", "p", "e", "c", "i", "f", "i", "e", "d">>

\* line 70
Skipped(line) ==
    line = <<>> \/ LitAt(line, 1, <<"T", "o", "t", "a", "l", ":">>) \/ LitAt(line, 1, <<"T", "r", "a", "n", "s", "a", "c", "t", "i", "o", "n", " ", "I", "D", ":">>)

\* dict.get(key, 0) + n stored back under key
Added(dict, key, n) ==
    [x \in DOMAIN dict \cup {key} |->
        (IF x \in DOMAIN dict THEN dict[x] ELSE 0) + (IF x = key THEN n ELSE 0)]

\* The lines of the model.  A line of the documented form is built from a
\* product name, an amount (its text and its value), a unit, a quantity, a
\* registration type (<<>>: the field is absent), what follows before the
\* closing parenthesis, and the white space between the pieces.
NameTexts == { <<"R", "e", "g", "i", "s", "t", "r", "a", "t", "i", "o", "n">>, <<"W", "A", "C", " ", "2", "7", " ", "R", "e", "g", "i", "s", "t", "r", "a", "t", "i", "o", "n">>, <<"M", "e", "r", "c", "h">>, <<"S", "h", "i", "r", "t", " ", "(", "L", ")">> }
Amounts == { <<<<"2", "0", ".", "0", "0">>, <<TRUE, 20, 1>> >>, <<<<"1", "2", ".", "5", "0">>, <<FALSE, 125, 10>> >>,
             <<<<"5">>, <<TRUE, 5, 1>> >>, <<<<"0", ".", "0", "0">>, <<TRUE, 0, 1>> >> }
Units == { <<>>, <<" ", "U", "S", "D">> }
Quantities == { <<<<"1">>, 1>>, <<<<"1", "2">>, 12>> }
TypeTexts == { <<>>, <<"S", "c", "h", "o", "l", "a", "r", "s", "h", "i", "p">>, <<"A", "d", "u", "l", "t", " ", "F", "u", "l", "l">> }
Endings == { <<>>, <<" ">>, <<",", " ", "o", "t", "h", "e", "r", " ", "f", "i", "e", "l", "d", ":", " ", "v", "a", "l", "u", "e">> }
Gaps == { <<" ">>, <<" ", " ">> }
FormLine(n, a, u, q, t, z, g) ==
    [ text |-> g \o n \o g \o <<"(", "A", "m", "o", "u", "n", "t", ":">> \o g \o a[1] \o u \o <<",", " ", "Q", "u", "a", "n", "t", "i", "t", "y", ":">> \o g
               \o q[1] \o (IF t = <<>> THEN <<>> ELSE <<",", " ", "R", "e", "g", "i", "s", "t", "r", "a", "t", "i", "o", "n", " ", "T", "y", "p", "e", ":">> \o g \o t)
               \o z \o <<")">>,
      name |-> n, amount |-> a[2], quantity |-> q[2],
      type |-> IF t = <<>> THEN <<"U", "n", "s", "p", "e", "c", "i", "f", "i", "e", "d">> ELSE t ]
FormLines ==
    { FormLine(n, a, u, q, t, z, g) :
        n \in NameTexts, a \in Amounts, u \in Units, q \in Quantities,
        t \in TypeTexts, z \in Endings, g \in Gaps }

\* Lines that are not of the form.
OtherLines ==
    { <<>>, <<"T", "o", "t", "a", "l", ":", " ", "4", "0", ".", "0", "0", " ", "U", "S", "D">>, <<"T", "r", "a", "n", "s", "a", "c", "t", "i", "o", "n", " ", "I", "D", ":", " ", "7", "7">>, <<"M", "e", "r", "c", "h">>,
      <<"R", "e", "g", "i", "s", "t", "r", "a", "t", "i", "o", "n", " ", "(", "A", "m", "o", "u", "n", "t", ":", " ", "f", "r", "e", "e", ",", " ", "Q", "u", "a", "n", "t", "i", "t", "y", ":", " ", "1", ")">>,
      <<"R", "e", "g", "i", "s", "t", "r", "a", "t", "i", "o", "n", " ", "(", "A", "m", "o", "u", "n", "t", ":", " ", "1", ".", "2", ".", "3", " ", "U", "S", "D", ",", " ", "Q", "u", "a", "n", "t", "i", "t", "y", ":", " ", "2", ")">>,
      <<"R", "e", "g", "i", "s", "t", "r", "a", "t", "i", "o", "n", " ", "(", "A", "m", "o", "u", "n", "t", ":", " ", "5", " ", "U", "S", "D", ",", " ", "Q", "u", "a", "n", "t", "i", "t", "y", ":", " ", "1">>,
      <<"R", "e", "g", "i", "s", "t", "r", "a", "t", "i", "o", "n", " ", "(", "A", "m", "o", "u", "n", "t", ":", " ", "5", " ", "U", "S", "D", ",", " ", "Q", "u", "a", "n", "t", "i", "t", "y", ":", " ", "x", ")">>,
      <<"R", "e", "g", "i", "s", "t", "r", "a", "t", "i", "o", "n", " ", "(", "A", "m", "o", "u", "n", "t", ":", " ", "5", " ", "U", "S", "D", ",", " ", "Q", "u", "a", "n", "t", "i", "t", "y", ":", " ", "1", ",", " ", "R", "e", "g", "i", "s", "t", "r", "a", "t", "i", "o", "n", " ", "T", "y", "p", "e", ":", " ", ")">>,
      <<"L", "a", "t", "e", " ", "R", "e", "g", "i", "s", "t", "r", "a", "t", "i", "o", "n", " ", "(", "A", "m", "o", "u", "n", "t", ":", " ", "4", "5", " ", "U", "S", "D", ",", " ", "Q", "u", "a", "n", "t", "i", "t", "y", ":", " ", "3", ",", " ", "R", "e", "g", "i", "s", "t", "r", "a", "t", "i", "o", "n", " ", "T", "y", "p", "e", ":", " ", "A", "d", "u", "l", "t", ")">> }

\* Cells of several lines.
MaxLines == 2
SampleLines ==
    { <<>>, <<"T", "o", "t", "a", "l", ":", " ", "4", "0", ".", "0", "0", " ", "U", "S", "D">>, <<"M", "e", "r", "c", "h", " ", "(", "A", "m", "o", "u", "n", "t", ":", " ", "1", "2", ".", "5", "0", " ", "U", "S", "D", ",", " ", "Q", "u", "a", "n", "t", "i", "t", "y", ":", " ", "1", ")">>,
      <<"R", "e", "g", "i", "s", "t", "r", "a", "t", "i", "o", "n", " ", "(", "A", "m", "o", "u", "n", "t", ":", " ", "2", "0", ".", "0", "0", " ", "U", "S", "D", ",", " ", "Q", "u", "a", "n", "t", "i", "t", "y", ":", " ", "2", ",", " ", "R", "e", "g", "i", "s", "t", "r", "a", "t", "i", "o", "n", " ", "T", "y", "p", "e", ":", " ", "S", "c", "h", "o", "l", "a", "r", "s", "h", "i", "p", ")">> }
RECURSIVE JoinedLines(_)
JoinedLines(n) ==
    IF n = 1 THEN SampleLines
    ELSE { c \o <<"\n">> \o l : c \in JoinedLines(n - 1), l \in SampleLines }
Cells ==
    { f.text : f \in FormLines } \cup OtherLines
    \cup UNION { JoinedLines(n) : n \in 2..MaxLines }

RegInit ==
    /\ cell_value \in Cells
    /\ total_rows = 0
    /\ lines = <<>> /\ li = 0 /\ found_match = FALSE
    /\ product_name = <<>> /\ price_val = <<TRUE, 0, 1>> /\ quantity = 0
    /\ reg_type = <<>>
    /\ total_registrations = 0 /\ breakdown = <<>>
    /\ price_counts = [p \in ListedPrices |-> 0] /\ other_price_counts = <<>>
    /\ rows_without_matches = 0
    /\ rpc = "row"
    /\ SimIdle /\ ExtIdle /\ TallyIdle

\* lines 58-62: a row without products
SkipEmptyCell ==
    /\ rpc = "row" /\ cell_value = <<>>
    /\ total_rows' = total_rows + 1
    /\ rpc' = "done"
    /\ UNCHANGED <<cell_value, lines, li, found_match, product_name, price_val,
                   quantity, reg_type, total_registrations, breakdown,
                   price_counts, other_price_counts, rows_without_matches,
                   simVars, extVars, tallyVars>>

\* lines 58-66
SplitCell ==
    /\ rpc = "row" /\ cell_value # <<>>
    /\ total_rows' = total_rows + 1
    /\ lines' = SplitLines(cell_value)
    /\ found_match' = FALSE
    /\ li' = 1
    /\ rpc' = "line"
    /\ UNCHANGED <<cell_value, product_name, price_val, quantity, reg_type,
                   total_registrations, breakdown, price_counts,
                   other_price_counts, rows_without_matches, simVars, extVars, tallyVars>>

\* lines 69-71: an empty line, a total, a transaction id
SkipLine ==
    /\ rpc = "line" /\ li <= Len(lines)
    /\ Skipped(Strip(lines[li]))
    /\ li' = li + 1
    /\ UNCHANGED <<total_rows, cell_value, lines, found_match, product_name,
                   price_val, quantity, reg_type, total_registrations,
                   breakdown, price_counts, other_price_counts,
                   rows_without_matches, rpc, simVars, extVars, tallyVars>>

\* lines 73-74: a line the pattern does not match
NoMatch ==
    /\ rpc = "line" /\ li <= Len(lines)
    /\ ~Skipped(Strip(lines[li]))
    /\ ProductSearch(Strip(lines[li])) = <<>>
    /\ li' = li + 1
    /\ UNCHANGED <<total_rows, cell_value, lines, found_match, product_name,
                   price_val, quantity, reg_type, total_registrations,
                   breakdown, price_counts, other_price_counts,
                   rows_without_matches, rpc, simVars, extVars, tallyVars>>

\* lines 74-86: what a matching line is parsed to
Parsed(match) ==
    /\ found_match' = TRUE
    /\ product_name' = Strip(match[1])
    /\ price_val' = PriceOf(match[2])
    /\ quantity' = ToInt(match[3])
    /\ reg_type' = RegTypeOf(match[4])

\* lines 74-89: a product that is no registration
ParseOther ==
    /\ rpc = "line" /\ li <= Len(lines)
    /\ ~Skipped(Strip(lines[li]))
    /\ ProductSearch(Strip(lines[li])) # <<>>
    /\ Parsed(ProductSearch(Strip(lines[li])))
    /\ ~Contains(<<"R", "e", "g", "i", "s", "t", "r", "a", "t", "i", "o", "n">>, product_name')
    /\ li' = li + 1
    /\ UNCHANGED <<total_rows, cell_value, lines, total_registrations, breakdown,
                   price_counts, other_price_counts, rows_without_matches, rpc,
                   simVars, extVars, tallyVars>>

\* lines 74-96: a registration at one of the listed prices
CountListedPrice ==
    /\ rpc = "line" /\ li <= Len(lines)
    /\ ~Skipped(Strip(lines[li]))
    /\ ProductSearch(Strip(lines[li])) # <<>>
    /\ Parsed(ProductSearch(Strip(lines[li])))
    /\ Contains(<<"R", "e", "g", "i", "s", "t", "r", "a", "t", "i", "o", "n">>, product_name')
    /\ price_val'[1] /\ price_val'[2] \in ListedPrices
    /\ total_registrations' = total_registrations + quantity'
    /\ breakdown' = Added(breakdown, product_name' \o <<" ", "-", " ">> \o reg_type', quantity')
    /\ price_counts' = [price_counts EXCEPT ![price_val'[2]] = @ + quantity']
    /\ li' = li + 1
    /\ UNCHANGED <<total_rows, cell_value, lines, other_price_counts,
                   rows_without_matches, rpc, simVars, extVars, tallyVars>>

\* lines 74-98: a registration at another price
CountOtherPrice ==
    /\ rpc = "line" /\ li <= Len(lines)
    /\ ~Skipped(Strip(lines[li]))
    /\ ProductSearch(Strip(lines[li])) # <<>>
    /\ Parsed(ProductSearch(Strip(lines[li])))
    /\ Contains(<<"R", "e", "g", "i", "s", "t", "r", "a", "t", "i", "o", "n">>, product_name')
    /\ ~(price_val'[1] /\ price_val'[2] \in ListedPrices)
    /\ total_registrations' = total_registrations + quantity'
    /\ breakdown' = Added(breakdown, product_name' \o <<" ", "-", " ">> \o reg_type', quantity')
    /\ other_price_counts' = Added(other_price_counts, price_val', quantity')
    /\ li' = li + 1
    /\ UNCHANGED <<total_rows, cell_value, lines, price_counts,
                   rows_without_matches, rpc, simVars, extVars, tallyVars>>

\* lines 100-102: the end of the row
EndOfCell ==
    /\ rpc = "line" /\ li > Len(lines)
    /\ rows_without_matches' =
          IF Strip(cell_value) # <<>> /\ ~found_match
          THEN rows_without_matches + 1 ELSE rows_without_matches
    /\ rpc' = "done"
    /\ UNCHANGED <<total_rows, cell_value, lines, li, found_match, product_name,
                   price_val, quantity, reg_type, total_registrations,
                   breakdown, price_counts, other_price_counts, simVars, extVars, tallyVars>>

RegNext ==
    \/ SkipEmptyCell \/ SplitCell \/ SkipLine \/ NoMatch \/ ParseOther
    \/ CountListedPrice \/ CountOtherPrice \/ EndOfCell

RegSpec == RegInit /\ [][RegNext]_vars

\* the line the loop has just handled, as line 69 strips it
TheLine == Strip(lines[li - 1])

\* C18: a line of the form <name> (Amount: <decimal> ..., Quantity: <n>[,
\* Registration Type: <t>] ...) is parsed to its trimmed name, its amount
\* as a number, an int when it is whole, its quantity, and its registration
\* type, which is Unspecified when no such field follows the quantity.
C18_LineItemParsed ==
    (rpc = "line" /\ li > 1) =>
       \A f \in FormLines :
          TheLine = Strip(f.text) =>
             /\ found_match
             /\ product_name = Strip(f.name)
             /\ price_val = f.amount
             /\ quantity = f.quantity
             /\ reg_type = f.type

\* A line with a whole amount, a quantity of two digits, a type and another
\* field after it has been parsed.
C18_Witness ==
    /\ rpc = "line" /\ li > 1
    /\ Contains(<<",", " ", "o", "t", "h", "e", "r", " ", "f", "i", "e", "l", "d">>, TheLine)
    /\ price_val = <<TRUE, 20, 1>> /\ quantity = 12 /\ reg_type = <<"S", "c", "h", "o", "l", "a", "r", "s", "h", "i", "p">>

---------------------------------------------------------------------------
(* main of ypaa_comitee_analyzer.py: the tally weighted by registrations    *)

\* lines 8-128: extract_groups as one function: the lists a call may return
ExtractGroups(field) ==
    IF IsBlank(field) \/ IsNo(field) THEN { <<NotSpecified>> }
    ELSE IF IsYes(field) THEN { <<YesUnspecified>> }
    ELSE IF CollectLabels(ReSplit(field)) # <<>>
         THEN Orderings(Range(CollectLabels(ReSplit(field))))
    ELSE IF HoldsYes(field) THEN { <<YesUnspecified>> }
    ELSE { <<Title(Strip(field))>> }

\* The two descriptions of extract_groups agree.
ExtractAgree == epc = "done" => result \in ExtractGroups(name)

\* line 273: the pattern of main, which takes any amount:
\*    (.*?)\s*\(Amount:.*?, Quantity:\s*(\d+)(?:, Registration Type:\s*(.*?))?.*?\)
\* matched from \s*\(Amount: on at position p
AnyAmountHeadAt(s, p) ==
    /\ LitAt(s, p + SpaceRun(s, p), <<"(", "A", "m", "o", "u", "n", "t", ":">>)
    /\ \E c \in (p + SpaceRun(s, p) + 8)..Len(s) : QuantityAt(s, c)

\* line 295: product_pattern.search(line): <<>> when nothing matches, else
\* group(1) and group(2)
QuantitySearch(s) ==
    LET heads == { e \in 0..Len(s) : AnyAmountHeadAt(s, e + 1) }
    IN  IF heads = {} THEN <<>>
        ELSE LET e == CHOOSE e \in heads : \A y \in heads : e <= y
                 a == e + 1 + SpaceRun(s, e + 1) + 8
                 c == CHOOSE c \in a..Len(s) :
                         /\ QuantityAt(s, c)
                         /\ \A y \in a..(c - 1) : ~QuantityAt(s, y)
                 d == QuantityStart(s, c)
             IN  << SubSeq(s, 1, e), SubSeq(s, d, d + QuantityDigits(s, c) - 1) >>

\* lines 288-301: the registrations among the lines of a products cell
RECURSIVE RegCountOf(_)
RegCountOf(ls) ==
    IF ls = <<>> THEN 0
    ELSE (IF /\ ~Skipped(Strip(Head(ls)))
             /\ QuantitySearch(Strip(Head(ls))) # <<>>
             /\ Contains(<<"R", "e", "g", "i", "s", "t", "r", "a", "t", "i", "o", "n">>, Strip(QuantitySearch(Strip(Head(ls)))[1]))
          THEN ToInt(QuantitySearch(Strip(Head(ls)))[2]) ELSE 0)
         + RegCountOf(Tail(ls))

\* The rows of the model: none, one or two cells, the products first.
ProductCells ==
    { <<>>,
      <<"M", "e", "r", "c", "h", " ", "(", "A", "m", "o", "u", "n", "t", ":", " ", "5", ".", "0", "0", " ", "U", "S", "D", ",", " ", "Q", "u", "a", "n", "t", "i", "t", "y", ":", " ", "2", ")">>,
      <<"R", "e", "g", "i", "s", "t", "r", "a", "t", "i", "o", "n", " ", "(", "A", "m", "o", "u", "n", "t", ":", " ", "2", "0", ".", "0", "0", " ", "U", "S", "D", ",", " ", "Q", "u", "a", "n", "t", "i", "t", "y", ":", " ", "1", ")">>,
      <<"R", "e", "g", "i", "s", "t", "r", "a", "t", "i", "o", "n", " ", "(", "A", "m", "o", "u", "n", "t", ":", " ", "2", "0", ".", "0", "0", " ", "U", "S", "D", ",", " ", "Q", "u", "a", "n", "t", "i", "t", "y", ":", " ", "1", ",", " ", "R", "e", "g", "i", "s", "t", "r", "a", "t", "i", "o", "n", " ", "T", "y", "p", "e", ":", " ", "A", "d", "u", "l", "t", ")">>
        \o <<"\n">> \o <<"M", "e", "r", "c", "h", " ", "(", "A", "m", "o", "u", "n", "t", ":", " ", "5", ".", "0", "0", " ", "U", "S", "D", ",", " ", "Q", "u", "a", "n", "t", "i", "t", "y", ":", " ", "3", ")">>
        \o <<"\n">> \o <<"L", "a", "t", "e", " ", "R", "e", "g", "i", "s", "t", "r", "a", "t", "i", "o", "n", " ", "(", "A", "m", "o", "u", "n", "t", ":", " ", "3", "0", " ", "U", "S", "D", ",", " ", "Q", "u", "a", "n", "t", "i", "t", "y", ":", " ", "1", ")">>
        \o <<"\n">> \o <<"T", "o", "t", "a", "l", ":", " ", "6", "5", ".", "0", "0", " ", "U", "S", "D">> }
CommitteeFields == { <<>>, <<"N", "o">>, <<"y", "e", "s">>, <<"W", "A", "C">>, <<"W", "A", "C", "/", "B", "A", "C", "Y">>, <<"h", "e", "l", "l", "o">> }
DataRows ==
    { <<>> } \cup { <<c>> : c \in ProductCells }
    \cup { <<c, f>> : c \in ProductCells, f \in CommitteeFields }
\* lines 281-301: reg_count of a row; the products are its first cell.
\* The counts of the model's cells are computed once.
RegCountTable == { <<c, RegCountOf(SplitLines(c))>> : c \in ProductCells }
RegCount(row) ==
    IF Len(row) >= 1 /\ row[1] # <<>>
    THEN (CHOOSE e \in RegCountTable : e[1] = row[1])[2] ELSE 0

\* lines 317-318: the list extended n times by l
RepeatOnce(l, n) == l
RECURSIVE Repeat(_, _)
Repeat(l, n) == IF n = 0 THEN <<>> ELSE l \o Repeat(l, n - 1)

\* line 329
threshold == 2

\* lines 337-347: the bucket of a label with its count
BucketOf(group, count) ==
    IF group = NotSpecified THEN "no"
    ELSE IF group = YesUnspecified THEN "yes"
    ELSE IF count = 1 THEN "dissimilar"
    ELSE IF count >= threshold THEN "filtered"
    ELSE "none"

\* lines 337-347: the sum of the counts of a bucket, over the labels as
\* group_counts.items() yields them
RECURSIVE BucketSum(_, _, _)
BucketSum(labels, cnts, bucket) ==
    IF labels = <<>> THEN 0
    ELSE (IF BucketOf(Head(labels), cnts[Head(labels)]) = bucket
          THEN cnts[Head(labels)] ELSE 0)
         + BucketSum(Tail(labels), cnts, bucket)

\* lines 346-347: the items of the grouped bucket, in the order of the labels
RECURSIVE FilteredOf(_, _)
FilteredOf(labels, cnts) ==
    IF labels = <<>> THEN <<>>
    ELSE (IF BucketOf(Head(labels), cnts[Head(labels)]) = "filtered"
          THEN << <<Head(labels), cnts[Head(labels)]>> >> ELSE <<>>)
         \o FilteredOf(Tail(labels), cnts)

\* line 350: list.sort by count, descending and stable
RECURSIVE InsertItem(_, _)
InsertItem(sorted, item) ==
    IF sorted = <<>> THEN <<item>>
    ELSE IF item[2] > Head(sorted)[2] THEN <<item>> \o sorted
    ELSE <<Head(sorted)>> \o InsertItem(Tail(sorted), item)
RECURSIVE SortItems(_)
SortItems(items) ==
    IF items = <<>> THEN <<>>
    ELSE InsertItem(SortItems(SubSeq(items, 1, Len(items) - 1)), items[Len(items)])

RECURSIVE SumCounts(_)
SumCounts(items) ==
    IF items = <<>> THEN 0 ELSE Head(items)[2] + SumCounts(Tail(items))

MaxDataRows == 2

TallyInit ==
    /\ data_rows \in UNION { [1..n -> DataRows] : n \in 0..MaxDataRows }
    /\ ri = 1 /\ all_groups = <<>>
    /\ total_registrations_processed = 0
    /\ group_counts = <<>> /\ filtered_items = <<>>
    /\ dissimilar_sum = 0 /\ no_specified_sum = 0 /\ yes_unspecified_sum = 0
    /\ total_mentions_weighted = 0 /\ filtered_count_sum = 0
    /\ tpc = "rows"
    /\ SimIdle /\ ExtIdle /\ RegIdle

\* lines 279-307: a row without registrations
SkipRow ==
    /\ tpc = "rows" /\ ri <= Len(data_rows)
    /\ RegCount(data_rows[ri]) = 0
    /\ ri' = ri + 1
    /\ UNCHANGED <<data_rows, all_groups, total_registrations_processed,
                   group_counts, filtered_items, dissimilar_sum,
                   no_specified_sum, yes_unspecified_sum,
                   total_mentions_weighted, filtered_count_sum, tpc,
                   simVars, extVars, regVars>>

\* lines 279-318: a row with registrations and a committee field
TallyRow ==
    /\ tpc = "rows" /\ ri <= Len(data_rows)
    /\ RegCount(data_rows[ri]) > 0
    /\ Len(data_rows[ri]) > 1
    /\ total_registrations_processed' =
          total_registrations_processed + RegCount(data_rows[ri])
    /\ \E labels \in ExtractGroups(data_rows[ri][2]) :
          all_groups' = all_groups \o Repeat(labels, RegCount(data_rows[ri]))
    /\ ri' = ri + 1
    /\ UNCHANGED <<data_rows, group_counts, filtered_items, dissimilar_sum,
                   no_specified_sum, yes_unspecified_sum,
                   total_mentions_weighted, filtered_count_sum, tpc,
                   simVars, extVars, regVars>>

\* lines 279-322: a row with registrations that ends before the committee
\* column
TallyShortRow ==
    /\ tpc = "rows" /\ ri <= Len(data_rows)
    /\ RegCount(data_rows[ri]) > 0
    /\ Len(data_rows[ri]) <= 1
    /\ total_registrations_processed' =
          total_registrations_processed + RegCount(data_rows[ri])
    /\ all_groups' =
          all_groups \o Repeat(<<NotSpecified>>, RegCount(data_rows[ri]))
    /\ ri' = ri + 1
    /\ UNCHANGED <<data_rows, group_counts, filtered_items, dissimilar_sum,
                   no_specified_sum, yes_unspecified_sum,
                   total_mentions_weighted, filtered_count_sum, tpc,
                   simVars, extVars, regVars>>

\* lines 326-358: the counts and the sums of the summary
Summarise ==
    /\ tpc = "rows" /\ ri > Len(data_rows)
    /\ group_counts' = Counter(all_groups)
    /\ total_mentions_weighted' = Len(all_groups)
    /\ no_specified_sum' = BucketSum(Keys(all_groups), Counter(all_groups), "no")
    /\ yes_unspecified_sum' = BucketSum(Keys(all_groups), Counter(all_groups), "yes")
    /\ dissimilar_sum' = BucketSum(Keys(all_groups), Counter(all_groups), "dissimilar")
    /\ filtered_items' = SortItems(FilteredOf(Keys(all_groups), Counter(all_groups)))
    /\ filtered_count_sum' =
          SumCounts(SortItems(FilteredOf(Keys(all_groups), Counter(all_groups))))
    /\ tpc' = "done"
    /\ UNCHANGED <<data_rows, ri, all_groups, total_registrations_processed,
                   simVars, extVars, regVars>>

TallyNext == SkipRow \/ TallyRow \/ TallyShortRow \/ Summarise

TallySpec == TallyInit /\ [][TallyNext]_vars

\* The labels of a row: those of its committee field, of the empty field when
\* the row has none.
LabelsOf(row) ==
    Range(CHOOSE l \in ExtractGroups(IF Len(row) > 1 THEN row[2] ELSE <<>>) : TRUE)

\* The sum of the registration counts of the rows numbered in S.
RECURSIVE WeightOf(_)
WeightOf(S) ==
    IF S = {} THEN 0
    ELSE LET x == CHOOSE x \in S : TRUE
         IN  RegCount(data_rows[x]) + WeightOf(S \ {x})

TallyOf(L) == IF L \in DOMAIN group_counts THEN group_counts[L] ELSE 0

\* The sum of the tallies of the labels in S.
RECURSIVE TallySum(_)
TallySum(S) ==
    IF S = {} THEN 0
    ELSE LET L == CHOOSE L \in S : TRUE IN TallyOf(L) + TallySum(S \ {L})

Idioms == {NotSpecified, YesUnspecified}

\* C20: after the last row, the tally of a label is the sum of the
\* registration counts of the rows that mention it, a row without
\* registrations adding nothing; each tallied label falls in one of the four
\* buckets, whose sums are those of their labels' tallies and add up to the
\* total of weighted mentions.
C20_WeightedTally ==
    tpc = "done" =>
       /\ \A L \in DOMAIN group_counts \cup UNION { LabelsOf(data_rows[x]) : x \in DOMAIN data_rows } :
             TallyOf(L) = WeightOf({ x \in DOMAIN data_rows : L \in LabelsOf(data_rows[x]) })
       /\ { it[1] : it \in Range(filtered_items) }
             = { L \in DOMAIN group_counts \ Idioms : group_counts[L] >= 2 }
       /\ filtered_count_sum
             = TallySum({ L \in DOMAIN group_counts \ Idioms : group_counts[L] >= 2 })
       /\ dissimilar_sum
             = TallySum({ L \in DOMAIN group_counts \ Idioms : group_counts[L] = 1 })
       /\ yes_unspecified_sum = TallyOf(YesUnspecified)
       /\ no_specified_sum = TallyOf(NotSpecified)
       /\ filtered_count_sum + yes_unspecified_sum + no_specified_sum + dissimilar_sum
             = total_mentions_weighted
       /\ total_mentions_weighted = TallySum(DOMAIN group_counts)

\* Two rows of one and of two registrations name a committee and gave it a
\* tally of three, beside a one-off.
C20_Witness ==
    /\ tpc = "done" /\ Len(data_rows) = 2
    /\ \E L \in DOMAIN group_counts : group_counts[L] = 3
    /\ dissimilar_sum = 1 /\ filtered_count_sum = 3
=============================================================================
